---- MODULE Spec2Model ----
(***************************************************************************)
(* The playback controller (StepByStepDisplay) of the algorithm visualizer *)
(* together with the part of App that owns currentStep and algorithmData,  *)
(* and the speech queue used by speak()/stopSpeaking().                    *)
(*                                                                         *)
(* React is modelled as follows.  State variables hold the values of the   *)
(* last committed render; setState calls made by a handler are queued      *)
(* (pendStep, pendPlaying; every call passes a plain value, so the last    *)
(* call wins).  A click handler runs together with the render it causes    *)
(* and with that render's effects (discrete events are flushed             *)
(* synchronously).  A timer callback only queues its updates: the render   *)
(* is a later task (Commit), and so is the render caused by a setState     *)
(* made inside an effect.  Every render whose dependencies changed runs    *)
(* the cleanup of the previous effect and then the effect body.            *)
(*                                                                         *)
(* The second part is the visualizer (AlgorithmVisualizer): its payload,   *)
(* the content of its <svg> as the sequence of the elements appended to    *)
(* it, and whether the component function or its drawing effect threw.     *)
(* The specification Spec runs the playback controller with no visualizer  *)
(* payload; RenderSpec runs the visualizer on every payload of a bounded   *)
(* set with the playback controller left in its initial state.             *)
(***************************************************************************)
EXTENDS Integers, Sequences, FiniteSets, TLC

\* ---------------------------------------------------------------- bounds
MaxSteps == 4        \* longest step list that is loaded
NumSpeeds == 1       \* how many slider positions besides the default are tried
MaxTimerIds == 2     \* size of the pool interval ids are drawn from
MaxTicksPerRender == 2  \* ticks of one interval that fire before the render
MaxLen == 3          \* longest array payload
MaxValue == 2        \* array values are 1..MaxValue
MaxNodes == 2        \* node ids of graph and linked-list payloads are 1..MaxNodes

\* ------------------------------------------------------ program constants
DefaultSpeed == 1000
MinSpeed == 200
SpeedStep == 200

VARIABLES
    algorithmData,   \* App: <<>> for null, <<steps>> once loaded
    loading,         \* App: a search is in flight
    currentStep,     \* App: committed value of currentStep
    isPlaying,       \* StepByStepDisplay: committed value of isPlaying
    playbackSpeed,   \* StepByStepDisplay: committed value of playbackSpeed
    intervalRef,     \* intervalRef.current: 0 for null, else an interval id
    timers,          \* the intervals that were created and not yet cleared
    speech,          \* the queue of speechSynthesis (utterance texts)
    pendStep,        \* queued setCurrentStep: <<>> or <<value>>
    pendPlaying,     \* queued setIsPlaying: <<>> or <<value>>
    lastOp,          \* the operation that ran last
    stepBefore,      \* currentStep at the start of that operation
    playingBefore,   \* isPlaying at the start of that operation
    prevOp,          \* the operation that ran before it
    stepBefore2,     \* currentStep at the start of prevOp
    narrated,        \* text given to speak() by the handler that last called
                     \* onStepChange, <<>> if that handler did not speak
    stepCalls,       \* number of onStepChange calls made since the render
                     \* before the last one (those the last render consumed,
                     \* or those still queued by ticks)
    vizData,         \* AlgorithmVisualizer: the prop `data`
    vizStep,         \* AlgorithmVisualizer: the prop `currentStep`
    vizMounted,      \* AlgorithmVisualizer rendered and committed once
    svg,             \* the elements inside the <svg>, in document order
    vizError,        \* "none", or where an exception was thrown:
                     \* "render" (component function) or "effect"
    redrawn,         \* the last effect run had the same data and step as
                     \* the run before it
    nodePos,         \* graph: per node object of the current scene, "seed"
                     \* (where the circular seed put it) or "moved"
    pinned,          \* graph: the nodes of the current scene whose fx, fy
                     \* are set
    pulsing,         \* graph: the nodes whose click transition is running
    dragging,        \* graph: the node being dragged, 0 for none
    simLive,         \* the force simulation of the current scene is running
    staleSim,        \* a force simulation created by an earlier effect run
                     \* is still running
    audioScript,     \* AudioExplanation: the state `audioScript`, 0 for ''
    utteranceRef,    \* AudioExplanation: utteranceRef.current is set
    audioIsPlaying,  \* AudioExplanation: the state `isPlaying`
    speechPaused     \* speechSynthesis.paused

playbackVars ==
    <<algorithmData, loading, currentStep, isPlaying, playbackSpeed,
      intervalRef, timers, speech, pendStep, pendPlaying, lastOp,
      stepBefore, playingBefore, prevOp, stepBefore2, narrated, stepCalls>>

physVars == <<nodePos, pinned, pulsing, dragging, simLive, staleSim>>

vizVars == <<vizData, vizStep, vizMounted, svg, vizError, redrawn, physVars>>

audioVars == <<audioScript, utteranceRef, audioIsPlaying, speechPaused>>

vars == <<playbackVars, vizVars, audioVars>>

\* ----------------------------------------------------------- input sets
\* The description of the step at position i is the text i: texts are only
\* handed to speak(), never compared by the code.
StepLists == {[i \in 1..n |-> i] : n \in 0..MaxSteps}

Speeds == {DefaultSpeed} \cup {MinSpeed + i * SpeedStep : i \in 0..(NumSpeeds - 1)}

TimerIds == 1..MaxTimerIds

\* ------------------------------------------------- visualizer payloads
\* data.type: the four tags the dispatch knows, a string it does not know,
\* and no type at all (undefined)
Tags == {"array", "graph", "tree", "linkedlist"}

Types == Tags \cup {"other", "absent"}

NodeIds == 1..MaxNodes

\* lists of at most two entries
ShortLists(S) == {<<>>} \cup {<<a>> : a \in S} \cup {<<a, b>> : a \in S, b \in S}

\* data.data, by its shape: null, an array, a plain object without a
\* `nodes` key (read as an adjacency mapping from node names to neighbor
\* lists), or an object with the keys nodes and connections and, when they
\* are not 0, head and tail.  visited and current hold the positions of the
\* array elements that are node objects carrying that flag.
Data(shape, items, adj, nodes, connections, head, tail) ==
    [shape |-> shape, items |-> items, adj |-> adj, nodes |-> nodes,
     connections |-> connections, head |-> head, tail |-> tail,
     visited |-> {}, current |-> {}]

NullData == Data("null", <<>>, <<>>, <<>>, <<>>, 0, 0)

ArrayData ==
    {Data("array", a, <<>>, <<>>, <<>>, 0, 0) :
        a \in UNION {[1..n -> 1..MaxValue] : n \in 0..MaxLen}}

\* an array of node objects {id, visited?, current?} with the ids n1..nk
FlaggedData ==
    UNION {{[Data("array", [i \in 1..k |-> i], <<>>, <<>>, <<>>, 0, 0)
                EXCEPT !.visited = v, !.current = c] :
               v \in SUBSET (1..k), c \in SUBSET (1..k)} : k \in 1..MaxNodes}

\* a neighbor that is not a key of the mapping is an undeclared node
MapData ==
    {Data("map", <<>>, m, <<>>, <<>>, 0, 0) :
        m \in UNION {[K -> ShortLists(NodeIds)] : K \in SUBSET NodeIds}}

\* the nodes n1..nk in order; a connection whose end is past k dangles
ListData ==
    {Data("list", <<>>, <<>>, [i \in 1..k |-> i], c, h, t) :
        k \in 0..MaxNodes, c \in ShortLists([from : NodeIds, to : NodeIds]),
        h \in 0..MaxNodes, t \in 0..MaxNodes}

Payloads ==
    {[type |-> ty, data |-> d] :
        ty \in Types,
        d \in {NullData} \cup ArrayData \cup FlaggedData \cup MapData \cup ListData}

NoPayload == [type |-> "absent", data |-> NullData]

VizSteps == 0..MaxLen

\* --------------------------------------------------- the svg and d3
\* one appended element: its class (or tag name), the index of its datum,
\* its fill, and for a line between two nodes the ids of its ends
El(cls, i, fill, from, to) ==
    [cls |-> cls, i |-> i, fill |-> fill, from |-> from, to |-> to]

\* an element that is not bound to a datum
Plain(cls, fill) == El(cls, 0 - 1, fill, 0, 0)

\* selection.data(d).enter().append(): one element per datum, index 0..n-1,
\* with the fills the callback returns for them
PerDatum(cls, fills) ==
    [k \in 1..Len(fills) |-> El(cls, k - 1, fills[k], 0, 0)]

\* the same fill for each of n data
Same(n, fill) == [k \in 1..n |-> fill]

ClearSvgKeeps(s) == s

\* svg.selectAll("*").remove()
ClearSvg(s) == <<>>

\* what a render function leaves in the svg, and whether it threw
Done(s) == [svg |-> s, threw |-> FALSE]

Threw(s) == [svg |-> s, threw |-> TRUE]

\* ------------------------------------------- renderArrayVisualization
BarFillUpTo(i, step) ==
    IF i <= step THEN "current-color" ELSE "unchecked-color"

\* .attr("fill", (_, i) => ...) of the bars, repeated by their transition
BarFill(i, step) ==
    IF i = step THEN "current-color"
    ELSE IF i < step THEN "checked-color"
    ELSE "unchecked-color"

\* array.map is not a function unless the data is an array, and it is called
\* before anything is appended
renderArrayVisualization(s, d, step) ==
    IF d.shape # "array" THEN Threw(s)
    ELSE LET n == Len(d.items)
         IN  Done(s \o <<Plain("g", "")>>
                    \o PerDatum("bar", [k \in 1..n |-> BarFill(k - 1, step)])
                    \o PerDatum("value-label", Same(n, "text-color"))
                    \o PerDatum("index-label", Same(n, "text-color"))
                    \o <<Plain("axis", ""), Plain("axis", "")>>)

\* ------------------------------------------- renderGraphVisualization
\* Object.keys of a mapping whose keys are node ids: ascending
RECURSIVE KeysOf(_)
KeysOf(S) ==
    IF S = {} THEN <<>>
    ELSE LET m == CHOOSE x \in S : \A y \in S : x <= y
         IN  <<m>> \o KeysOf(S \ {m})

Includes(q, v) == \E k \in 1..Len(q) : q[k] = v

IsDeclaredAlways(nodeNames, neighborName) == TRUE

\* `if (nodeNames.includes(neighborName))`
IsDeclared(nodeNames, neighborName) == Includes(nodeNames, neighborName)

\* neighbors.forEach for one node name
NeighborEdges(nodeName, neighbors, nodeNames) ==
    LET kept == SelectSeq(neighbors, LAMBDA v : IsDeclared(nodeNames, v))
    IN  [k \in 1..Len(kept) |-> <<nodeName, kept[k]>>]

\* nodeNames.forEach, from the k-th name on
RECURSIVE AdjacencyEdges(_, _, _)
AdjacencyEdges(adj, nodeNames, k) ==
    IF k > Len(nodeNames) THEN <<>>
    ELSE NeighborEdges(nodeNames[k], adj[nodeNames[k]], nodeNames)
            \o AdjacencyEdges(adj, nodeNames, k + 1)

\* no node objects and no simulation
PhysicsInit ==
    /\ nodePos = <<>>
    /\ pinned = {}
    /\ pulsing = {}
    /\ dragging = 0
    /\ simLive = FALSE
    /\ staleSim = FALSE

\* the keys of an object that holds nodes and connections, read as node
\* names: they are no node ids (written here as negative numbers), and the
\* arrays under them hold no string, so no neighbor is one of the names
ListKeys == <<0 - 1, 0 - 2>>

\* the ids of the nodes drawn
GraphNodes(d) ==
    CASE d.shape = "array" -> d.items
      [] d.shape = "map" -> KeysOf(DOMAIN d.adj)
      [] d.shape = "list" -> ListKeys
      [] OTHER -> <<>>

\* the (source, target) pairs of the edges drawn
GraphEdges(d) ==
    CASE d.shape = "array" ->
            [k \in 1..(IF Len(d.items) = 0 THEN 0 ELSE Len(d.items) - 1) |->
                <<d.items[k], d.items[k + 1]>>]
      [] d.shape = "map" -> AdjacencyEdges(d.adj, KeysOf(DOMAIN d.adj), 1)
      [] OTHER -> <<>>

\* `graphData.map((id) => ({ id }))`, `nodeNames.map((name) => ({ id: name }))`:
\* the node object holds the id and nothing else, so its visited and current
\* read as undefined
GraphNode(id) == [id |-> id, visited |-> FALSE, current |-> FALSE]

\* .attr("fill", (d) => ...) of the circles
NodeFill(step, d) ==
    IF step = 0 THEN "#3b82f6"
    ELSE IF d.visited THEN "#10b981"
    ELSE IF d.current THEN "#f59e0b"
    ELSE "#6b7280"

\* the number of node objects handed to d3.forceSimulation by an effect run
\* (0 when the run creates no simulation)
SimulatedNodes(p) ==
    IF p.type = "graph" /\ ~(p.data.shape = "list" /\ (p.data.head # 0 \/ p.data.tail # 0))
    THEN Len(GraphNodes(p.data))
    ELSE 0

\* With an object that holds head or tail, graphData[nodeName] is a string
\* and neighbors.forEach is not a function.
GraphThrows(d) == d.shape = "list" /\ (d.head # 0 \/ d.tail # 0)

renderGraphVisualization(s, d, step) ==
    LET c == ClearSvg(s)
        nodes == GraphNodes(d)
        edges == GraphEdges(d)
    IN  IF GraphThrows(d) THEN Threw(c)
        ELSE IF Len(nodes) = 0 THEN Done(c)
        ELSE Done(c \o <<Plain("graph-container-group", ""), Plain("links", "")>>
                    \o [k \in 1..Len(edges) |->
                          El("line", k - 1, "", edges[k][1], edges[k][2])]
                    \o <<Plain("nodes", "")>>
                    \o PerDatum("circle",
                                [k \in 1..Len(nodes) |-> NodeFill(step, GraphNode(nodes[k]))])
                    \o <<Plain("labels", "")>>
                    \o PerDatum("text", Same(Len(nodes), "#fff"))
                    \o <<Plain("step-info", "text-color")>>)

\* -------------------------------------------- renderTreeVisualization
\* the group is appended before treeData.map is called
renderTreeVisualization(s, d, step) ==
    IF d.shape # "array" THEN Threw(s \o <<Plain("g", "")>>)
    ELSE Done(s \o <<Plain("g", "")>>
                \o PerDatum("tree-node", Same(Len(d.items), "#3b82f6"))
                \o PerDatum("tree-label", Same(Len(d.items), "white")))

\* ---------------------------------------- renderLinkedListVisualization
IsCircularToHead(d) ==
    \E k \in 1..Len(d.connections) : d.connections[k].to = d.head

\* connections.some(conn => conn.from === tail && conn.to === head); an
\* absent head or tail (0) equals no node id
IsCircular(d) ==
    \E k \in 1..Len(d.connections) :
        d.connections[k].from = d.tail /\ d.connections[k].to = d.head

\* `if (i === step) ... if (i < step) ...` of the node boxes
NodeBoxFill(i, step) ==
    IF i = step THEN "#f59e0b"
    ELSE IF i < step THEN "#10b981"
    ELSE "#3b82f6"

ListArrowsAll(d) ==
    [k \in 1..Len(d.connections) |->
        El("linkedlist-arrow", 0 - 1, "", d.connections[k].from, d.connections[k].to)]

\* connections.forEach: an arrow only `if (fromNode && toNode)`
ListArrows(d) ==
    LET found == SelectSeq(d.connections,
                     LAMBDA c : Includes(d.nodes, c.from) /\ Includes(d.nodes, c.to))
    IN  [k \in 1..Len(found) |->
            El("linkedlist-arrow", 0 - 1, "", found[k].from, found[k].to)]

\* `if (head) { ... if (headNode)`: the label and its arrow
HeadPointer(d) ==
    IF d.head # 0 /\ Includes(d.nodes, d.head)
    THEN <<Plain("head-pointer", "#ef4444"), Plain("head-arrow", "")>>
    ELSE <<>>

TailPointer(d) ==
    IF d.tail # 0 /\ Includes(d.nodes, d.tail)
    THEN <<Plain("tail-pointer", "#8b5cf6")>>
    ELSE <<>>

\* The boxes of the array strip are appended one at a time, so the index
\* the fill callback gets is 0 for each of them.
ArrayStrip(d, step) ==
    [k \in 1..Len(d.nodes) |-> El("array-box", k - 1, NodeBoxFill(0, step), 0, 0)]

\* `if (!listData || !listData.nodes) return`: an array or a mapping has no
\* nodes
renderLinkedListVisualization(s, d, step) ==
    LET c == ClearSvg(s)
        n == Len(d.nodes)
    IN  IF d.shape # "list" THEN Done(c)
        ELSE Done(c \o <<Plain("g", "")>>
                    \o PerDatum("linkedlist-node", Same(n, ""))
                    \o PerDatum("node-box", [k \in 1..n |-> NodeBoxFill(k - 1, step)])
                    \o PerDatum("data-box", Same(n, "white"))
                    \o PerDatum("pointer-box", Same(n, "#f8f9fa"))
                    \o PerDatum("data-label", Same(n, "#666"))
                    \o PerDatum("node-value", Same(n, "#333"))
                    \o PerDatum("next-label", Same(n, "#666"))
                    \o PerDatum("node-id", Same(n, "#333"))
                    \o ListArrows(d)
                    \o HeadPointer(d)
                    \o TailPointer(d)
                    \o <<Plain("array-title", "#374151")>>
                    \o ArrayStrip(d, step)
                    \o PerDatum("array-index", Same(n, "#666"))
                    \o PerDatum("array-value", Same(n, "white"))
                    \o PerDatum("memory-address", Same(n, "#666"))
                    \o PerDatum("connection-line", Same(n, ""))
                    \o <<Plain("step-info", "text-color")>>
                    \o (IF IsCircular(d) THEN <<Plain("circular-indicator", "#f59e0b")>>
                        ELSE <<>>))

\* ------------------------------------------------ the component
\* The JSX reads data.type.charAt(0) and data.data.length: the first throws
\* when type is undefined, the second when data.data is null.
RenderThrows(p) == p.type = "absent" \/ p.data.shape = "null"

\* the fallback of the dispatch: an object with a `nodes` key, else an array
AutoDetect(s, d, step) ==
    IF d.shape = "list" THEN renderLinkedListVisualization(s, d, step)
    ELSE IF d.shape = "array" THEN renderArrayVisualization(s, d, step)
    ELSE Done(s)

\* the drawing effect: clear the svg, then dispatch on data.type
DrawEffect(s, p, step) ==
    LET c == ClearSvg(s)
    IN  CASE p.type = "array" -> renderArrayVisualization(c, p.data, step)
          [] p.type = "graph" -> renderGraphVisualization(c, p.data, step)
          [] p.type = "tree" -> renderTreeVisualization(c, p.data, step)
          [] p.type = "linkedlist" -> renderLinkedListVisualization(c, p.data, step)
          [] OTHER -> AutoDetect(c, p.data, step)

\* ------------------------------------------------------------- helpers
Mounted == algorithmData # <<>>

steps == IF Mounted THEN algorithmData[1] ELSE <<>>

\* steps[i] is truthy (0-based index i)
HasStep(s, i) == (i + 1) \in DOMAIN s

\* steps[i].description
Description(s, i) == s[i + 1]

\* the state value a render sees: the last queued value, else the old one
Resolve(cur, pend) == IF pend = <<>> THEN cur ELSE pend[1]

\* ------------------------------------------------------ speech (AudioUtils)
\* speak(text): cancel() empties the queue, speak(utterance) appends
speak(q, text) == Append(<<>>, text)

stopSpeakingKeeps(q) == q

\* stopSpeaking(): speechSynthesis.cancel()
stopSpeaking(q) == <<>>

\* ------------------------------------------------------------- intervals
\* clearInterval(id): an id that is not live clears nothing
clearInterval(ts, id) == {t \in ts : t.id # id}

ClearRefKeeps(ts, ref) == ts

\* `if (intervalRef.current) clearInterval(intervalRef.current)`
ClearRef(ts, ref) == IF ref # 0 THEN clearInterval(ts, ref) ELSE ts

\* ids setInterval can return: never one of a live interval, and never the
\* (possibly stale) one still held by intervalRef
FreshIds(ts, ref) == {i \in TimerIds : i # ref /\ \A t \in ts : t.id # i}

FreshId(ts, ref) == CHOOSE i \in FreshIds(ts, ref) : \A j \in FreshIds(ts, ref) : i <= j

\* ------------------------------------------------- handlers' step targets
\* handlePlay: `if (currentStep >= steps.length - 1) onStepChange(0)`
HandlePlayStep(cs, n) == IF cs >= n - 1 THEN <<0>> ELSE <<>>

HandleNextNoGuard(cs, n) == <<cs + 1>>

\* handleNext: `if (currentStep < steps.length - 1) onStepChange(currentStep + 1)`
HandleNextStep(cs, n) == IF cs < n - 1 THEN <<cs + 1>> ELSE <<>>

HandlePreviousNoGuard(cs) == <<cs - 1>>

\* handlePrevious: `if (currentStep > 0) onStepChange(currentStep - 1)`
HandlePreviousStep(cs) == IF cs > 0 THEN <<cs - 1>> ELSE <<>>

HandlePauseKeepsPlaying == <<>>

\* handlePause: setIsPlaying(false)
HandlePausePlaying == <<FALSE>>

HandleResetKeepsStep == <<>>

\* handleReset: onStepChange(0)
HandleResetStep == <<0>>

\* `if (steps[newStep]) speak(steps[newStep].description)` after onStepChange
SpeakStep(q, s, target) ==
    IF target # <<>> /\ HasStep(s, target[1])
    THEN speak(q, Description(s, target[1]))
    ELSE q

NarratedBy(s, target, old) ==
    IF target = <<>> THEN old
    ELSE IF HasStep(s, target[1]) THEN <<Description(s, target[1])>> ELSE <<>>

\* ------------------------------------------------------ the timer effect
\* `if (isPlaying && currentStep < steps.length - 1)`: an interval is created
EffectStarts(playing, cs, n) == playing /\ cs < n - 1

EffectStopsNever(playing, cs, n) == FALSE

\* `else if (currentStep >= steps.length - 1) setIsPlaying(false)`
EffectStops(playing, cs, n) == ~EffectStarts(playing, cs, n) /\ cs >= n - 1

EffectCleanupNoop(ts, ref) == ts

\* the cleanup returned by the timer effect
EffectCleanup(ts, ref) == ClearRef(ts, ref)

\* A render with the queued updates ps (currentStep) and pp (isPlaying), the
\* speed spd and the live intervals ts, followed by its effects.  React skips
\* the render when no state changed; setIsPlaying(false) while isPlaying is
\* already false queues nothing.
Flush(ps, pp, spd, ts) ==
    LET newStep == Resolve(currentStep, ps)
        newPlaying == Resolve(isPlaying, pp)
        n == Len(steps)
        changed == \/ newStep # currentStep
                   \/ newPlaying # isPlaying
                   \/ spd # playbackSpeed
        cleaned == IF changed THEN EffectCleanup(ts, intervalRef) ELSE ts
        create == changed /\ EffectStarts(newPlaying, newStep, n)
        stop == changed /\ EffectStops(newPlaying, newStep, n)
    IN  /\ currentStep' = newStep
        /\ isPlaying' = newPlaying
        /\ playbackSpeed' = spd
        /\ IF create
           THEN /\ FreshIds(cleaned, intervalRef) # {}
                /\ intervalRef' = FreshId(cleaned, intervalRef)
                /\ timers' = cleaned \cup
                     {[id |-> FreshId(cleaned, intervalRef), k |-> newStep, ms |-> spd]}
           ELSE /\ intervalRef' = intervalRef
                /\ timers' = cleaned
        /\ pendStep' = <<>>
        /\ pendPlaying' = IF stop /\ newPlaying THEN <<FALSE>> ELSE <<>>

\* the trace of the last two operations, kept for the properties below
Did(op) ==
    /\ lastOp' = op
    /\ stepBefore' = currentStep
    /\ playingBefore' = isPlaying
    /\ prevOp' = lastOp
    /\ stepBefore2' = stepBefore

\* onStepChange calls of ticks whose render is still to come
QueuedCalls == IF pendStep = <<>> THEN 0 ELSE stepCalls

\* a click is handled against a committed render with nothing queued
Idle == Mounted /\ pendStep = <<>> /\ pendPlaying = <<>>

\* ------------------------------------------------------------------ Init
PlaybackInit ==
    /\ algorithmData = <<>>
    /\ loading = FALSE
    /\ currentStep = 0
    /\ isPlaying = FALSE
    /\ playbackSpeed = DefaultSpeed
    /\ intervalRef = 0
    /\ timers = {}
    /\ speech = <<>>
    /\ pendStep = <<>>
    /\ pendPlaying = <<>>
    /\ lastOp = "init"
    /\ stepBefore = 0
    /\ playingBefore = FALSE
    /\ prevOp = "init"
    /\ stepBefore2 = 0
    /\ narrated = <<>>
    /\ stepCalls = 0
    /\ audioScript = 0
    /\ utteranceRef = FALSE
    /\ audioIsPlaying = FALSE
    /\ speechPaused = FALSE

\* App before any search: no visualizer is mounted
Init ==
    /\ PlaybackInit
    /\ vizData = NoPayload
    /\ vizStep = 0
    /\ vizMounted = FALSE
    /\ svg = <<>>
    /\ vizError = "none"
    /\ redrawn = FALSE
    /\ PhysicsInit

\* ---------------------------------------------------------------- App
\* handleSearch up to the await: algorithmData becomes null, which unmounts
\* StepByStepDisplay (both effect cleanups run) and drops its state.
HandleSearch ==
    /\ ~loading
    /\ loading' = TRUE
    /\ algorithmData' = <<>>
    /\ currentStep' = 0
    /\ isPlaying' = FALSE
    /\ playbackSpeed' = DefaultSpeed
    /\ timers' = IF Mounted
                 THEN ClearRef(EffectCleanup(timers, intervalRef), intervalRef)
                 ELSE timers
    /\ intervalRef' = 0
    /\ speech' = IF Mounted THEN stopSpeaking(speech) ELSE speech
    /\ pendStep' = <<>>
    /\ pendPlaying' = <<>>
    /\ Did("search")
    /\ UNCHANGED <<vizVars, audioVars>>
    /\ stepCalls' = 0
    /\ narrated' = <<>>

\* searchAlgorithm resolved: setAlgorithmData(data) mounts a new controller
LoadSuccess(s) ==
    /\ loading
    /\ loading' = FALSE
    /\ algorithmData' = <<s>>
    /\ Did("load")
    /\ UNCHANGED <<vizVars, audioVars>>
    /\ stepCalls' = stepCalls
    /\ UNCHANGED <<currentStep, isPlaying, playbackSpeed, intervalRef, timers,
                   speech, pendStep, pendPlaying, narrated>>

\* searchAlgorithm rejected
LoadFailure ==
    /\ loading
    /\ loading' = FALSE
    /\ Did("error")
    /\ UNCHANGED <<vizVars, audioVars>>
    /\ stepCalls' = stepCalls
    /\ UNCHANGED <<algorithmData, currentStep, isPlaying, playbackSpeed,
                   intervalRef, timers, speech, pendStep, pendPlaying, narrated>>

\* ------------------------------------------------------ StepByStepDisplay
HandlePlay ==
    /\ Idle
    /\ ~isPlaying
    /\ Flush(HandlePlayStep(currentStep, Len(steps)), <<TRUE>>, playbackSpeed, timers)
    /\ narrated' = IF HandlePlayStep(currentStep, Len(steps)) # <<>> THEN <<>> ELSE narrated
    /\ Did("play")
    /\ UNCHANGED <<vizVars, audioVars>>
    /\ stepCalls' = Len(HandlePlayStep(currentStep, Len(steps)))
    /\ UNCHANGED <<algorithmData, loading, speech>>

HandlePause ==
    /\ Idle
    /\ isPlaying
    /\ Flush(<<>>, HandlePausePlaying, playbackSpeed, ClearRef(timers, intervalRef))
    /\ speech' = stopSpeaking(speech)
    /\ Did("pause")
    /\ UNCHANGED <<vizVars, audioVars>>
    /\ stepCalls' = 0
    /\ UNCHANGED <<algorithmData, loading, narrated>>

HandleNext ==
    /\ Idle
    /\ Flush(HandleNextStep(currentStep, Len(steps)), <<>>, playbackSpeed, timers)
    /\ speech' = SpeakStep(speech, steps, HandleNextStep(currentStep, Len(steps)))
    /\ narrated' = NarratedBy(steps, HandleNextStep(currentStep, Len(steps)), narrated)
    /\ Did("next")
    /\ UNCHANGED <<vizVars, audioVars>>
    /\ stepCalls' = Len(HandleNextStep(currentStep, Len(steps)))
    /\ UNCHANGED <<algorithmData, loading>>

HandlePrevious ==
    /\ Idle
    /\ Flush(HandlePreviousStep(currentStep), <<>>, playbackSpeed, timers)
    /\ speech' = SpeakStep(speech, steps, HandlePreviousStep(currentStep))
    /\ narrated' = NarratedBy(steps, HandlePreviousStep(currentStep), narrated)
    /\ Did("previous")
    /\ UNCHANGED <<vizVars, audioVars>>
    /\ stepCalls' = Len(HandlePreviousStep(currentStep))
    /\ UNCHANGED <<algorithmData, loading>>

HandleReset ==
    /\ Idle
    /\ Flush(HandleResetStep, HandlePausePlaying, playbackSpeed,
             ClearRef(timers, intervalRef))
    /\ speech' = SpeakStep(stopSpeaking(speech), steps, <<0>>)
    /\ narrated' = NarratedBy(steps, <<0>>, narrated)
    /\ Did("reset")
    /\ UNCHANGED <<vizVars, audioVars>>
    /\ stepCalls' = Len(HandleResetStep)
    /\ UNCHANGED <<algorithmData, loading>>

\* a button of the step list: onClick={() => onStepChange(index)}
SelectStep(index) ==
    /\ Idle
    /\ index \in 0..(Len(steps) - 1)
    /\ Flush(<<index>>, <<>>, playbackSpeed, timers)
    /\ narrated' = <<>>
    /\ Did("select")
    /\ UNCHANGED <<vizVars, audioVars>>
    /\ stepCalls' = 1
    /\ UNCHANGED <<algorithmData, loading, speech>>

\* the speed slider, disabled={isPlaying}
SetPlaybackSpeed(v) ==
    /\ Idle
    /\ ~isPlaying
    /\ v # playbackSpeed
    /\ Flush(<<>>, <<>>, v, timers)
    /\ Did("speed")
    /\ UNCHANGED <<vizVars, audioVars>>
    /\ stepCalls' = 0
    /\ UNCHANGED <<algorithmData, loading, speech, narrated>>

TickSeesLatest(t) == Resolve(currentStep, pendStep)

\* the currentStep that the handleNext of interval t reads: the one of the
\* render that created the interval (the callback closes over that render)
TickSees(t) == t.k

\* a tick of a live interval: handleNext of the render that created it,
\* which sees that render's currentStep (t.k)
Tick(t) ==
    /\ Mounted
    /\ t \in timers
    /\ QueuedCalls < MaxTicksPerRender
    /\ pendStep' = (IF HandleNextStep(TickSees(t), Len(steps)) # <<>>
                    THEN HandleNextStep(TickSees(t), Len(steps)) ELSE pendStep)
    /\ speech' = SpeakStep(speech, steps, HandleNextStep(TickSees(t), Len(steps)))
    /\ narrated' = NarratedBy(steps, HandleNextStep(TickSees(t), Len(steps)), narrated)
    /\ Did("tick")
    /\ UNCHANGED <<vizVars, audioVars>>
    /\ stepCalls' = QueuedCalls + Len(HandleNextStep(TickSees(t), Len(steps)))
    /\ UNCHANGED <<algorithmData, loading, currentStep, isPlaying, playbackSpeed,
                   intervalRef, timers, pendPlaying>>

\* the render React scheduled for updates queued by a tick or by an effect
Commit ==
    /\ Mounted
    /\ pendStep # <<>> \/ pendPlaying # <<>>
    /\ Flush(pendStep, pendPlaying, playbackSpeed, timers)
    /\ Did("commit")
    /\ UNCHANGED <<vizVars, audioVars>>
    /\ stepCalls' = QueuedCalls
    /\ UNCHANGED <<algorithmData, loading, speech, narrated>>

\* the utterance at the head of the queue has been spoken to its end
SpeechEnd ==
    /\ speech # <<>>
    /\ speech' = Tail(speech)
    /\ Did("speechend")
    /\ UNCHANGED <<vizVars, audioVars>>
    /\ stepCalls' = stepCalls
    /\ UNCHANGED <<algorithmData, loading, currentStep, isPlaying, playbackSpeed,
                   intervalRef, timers, pendStep, pendPlaying, narrated>>

Next ==
    \/ HandleSearch
    \/ \E s \in StepLists : LoadSuccess(s)
    \/ LoadFailure
    \/ HandlePlay
    \/ HandlePause
    \/ HandleNext
    \/ HandlePrevious
    \/ HandleReset
    \/ \E index \in 0..(MaxSteps - 1) : SelectStep(index)
    \/ \E v \in Speeds : SetPlaybackSpeed(v)
    \/ \E t \in timers : Tick(t)
    \/ Commit
    \/ SpeechEnd

Spec == Init /\ [][Next]_vars

TypeOK ==
    /\ algorithmData \in {<<>>} \cup {<<s>> : s \in StepLists}
    /\ loading \in BOOLEAN
    /\ currentStep \in 0..MaxSteps
    /\ isPlaying \in BOOLEAN
    /\ playbackSpeed \in Speeds
    /\ intervalRef \in {0} \cup TimerIds
    /\ \A t \in timers : t.id \in TimerIds /\ t.k \in 0..MaxSteps /\ t.ms \in Speeds
    /\ Len(speech) <= 2
    /\ Len(pendStep) <= 1
    /\ Len(pendPlaying) <= 1
    /\ Len(narrated) <= 1
    /\ stepCalls \in 0..MaxTicksPerRender

\* ======================================================================
\* The visualizer
\* ======================================================================

\* An effect run builds new node objects, seeds them on the circle and
\* starts a simulation on them when there is a node.  The effect returns no
\* cleanup and nothing else calls simulation.stop(), so a simulation that
\* was running keeps running, on the node objects of the scene that is
\* gone; the elements with a running click transition are removed.
NewScene(n) ==
    /\ nodePos' = [k \in 1..n |-> "seed"]
    /\ pinned' = {}
    /\ pulsing' = {}
    /\ dragging' = 0
    /\ simLive' = (n > 0)
    /\ staleSim' = (staleSim \/ simLive)

\* the effect run of a committed render
RunEffect(step) ==
    \E r \in {DrawEffect(svg, vizData, step)} :
        /\ svg' = r.svg
        /\ vizError' = (IF r.threw THEN "effect" ELSE "none")
        /\ NewScene(SimulatedNodes(vizData))

\* App mounts the visualizer with the payload of the loaded algorithm and
\* currentStep 0.  When the component function throws nothing is committed
\* and the effect never runs.
MountVisualizer ==
    /\ ~vizMounted
    /\ vizError = "none"
    /\ IF RenderThrows(vizData)
       THEN /\ vizError' = "render"
            /\ UNCHANGED <<vizMounted, svg, physVars>>
       ELSE /\ vizMounted' = TRUE
            /\ RunEffect(vizStep)
    /\ redrawn' = FALSE
    /\ UNCHANGED <<vizData, vizStep>>
    /\ UNCHANGED <<playbackVars, audioVars>>

\* the prop currentStep changes: the effect runs again
SetCurrentStep(s) ==
    /\ vizMounted
    /\ vizError = "none"
    /\ s # vizStep
    /\ vizStep' = s
    /\ RunEffect(s)
    /\ redrawn' = FALSE
    /\ UNCHANGED <<vizData, vizMounted>>
    /\ UNCHANGED <<playbackVars, audioVars>>

\* the Animation Speed slider: animationSpeed is a dependency of the effect,
\* so the effect runs again with the same data and step
SetAnimationSpeed ==
    /\ vizMounted
    /\ vizError = "none"
    /\ RunEffect(vizStep)
    /\ redrawn' = TRUE
    /\ UNCHANGED <<vizData, vizStep, vizMounted>>
    /\ UNCHANGED <<playbackVars, audioVars>>

RenderInit ==
    /\ PlaybackInit
    /\ vizData \in Payloads
    /\ vizStep = 0
    /\ vizMounted = FALSE
    /\ svg = <<>>
    /\ vizError = "none"
    /\ redrawn = FALSE
    /\ PhysicsInit

RenderNext ==
    \/ MountVisualizer
    \/ \E s \in VizSteps : SetCurrentStep(s)
    \/ SetAnimationSpeed

RenderSpec == RenderInit /\ [][RenderNext]_vars

\* ======================================================================
\* The graph scene: force simulation, click and drag
\* ======================================================================

\* a graph is drawn and its node objects exist
GraphShown == vizMounted /\ vizError = "none" /\ Len(nodePos) > 0

\* App removes the visualizer (a new search): the component has no cleanup,
\* so a running simulation keeps running with the svg gone.
UnmountVisualizer ==
    /\ vizMounted
    /\ vizError = "none"
    /\ vizMounted' = FALSE
    /\ svg' = <<>>
    /\ vizStep' = 0
    /\ redrawn' = FALSE
    /\ nodePos' = <<>>
    /\ pinned' = {}
    /\ pulsing' = {}
    /\ dragging' = 0
    /\ simLive' = FALSE
    /\ staleSim' = (staleSim \/ simLive)
    /\ UNCHANGED <<vizData, vizError>>
    /\ UNCHANGED <<playbackVars, audioVars>>

\* one tick of the simulation of the current scene: the forces move every
\* node that is not pinned, and the dragged node follows the pointer
SimTick ==
    /\ GraphShown
    /\ simLive
    /\ nodePos' = [k \in 1..Len(nodePos) |->
                      IF k \in pinned /\ k # dragging THEN nodePos[k] ELSE "moved"]
    /\ UNCHANGED <<pinned, pulsing, dragging, simLive, staleSim>>
    /\ UNCHANGED <<vizData, vizStep, vizMounted, svg, vizError, redrawn>>
    /\ UNCHANGED <<playbackVars, audioVars>>

\* alpha has decayed below alphaMin: the simulation stops by itself.  While
\* a node is dragged alphaTarget is 0.3 and alpha does not decay that far.
SimCool ==
    /\ simLive
    /\ dragging = 0
    /\ simLive' = FALSE
    /\ UNCHANGED <<nodePos, pinned, pulsing, dragging, staleSim>>
    /\ UNCHANGED <<vizData, vizStep, vizMounted, svg, vizError, redrawn>>
    /\ UNCHANGED <<playbackVars, audioVars>>

\* the same for the simulations left over from earlier effect runs
StaleSimCool ==
    /\ staleSim
    /\ staleSim' = FALSE
    /\ UNCHANGED <<nodePos, pinned, pulsing, dragging, simLive>>
    /\ UNCHANGED <<vizData, vizStep, vizMounted, svg, vizError, redrawn>>
    /\ UNCHANGED <<playbackVars, audioVars>>

\* `d.fx = d.x; d.fy = d.y` of the click handler
ClickPins(ps, i) == ps \cup {i}

\* A click on node i without movement.  Press and release pass through the
\* drag behaviour first (start restarts the simulation and pins, end
\* unpins); then the click handler pins the node where it is and starts the
\* pulse, replacing a pulse of the node that is still running.
ClickNode(i) ==
    /\ GraphShown
    /\ dragging = 0
    /\ i \in 1..Len(nodePos)
    /\ pinned' = ClickPins(pinned \ {i}, i)
    /\ pulsing' = pulsing \cup {i}
    /\ simLive' = TRUE
    /\ UNCHANGED <<nodePos, dragging, staleSim>>
    /\ UNCHANGED <<vizData, vizStep, vizMounted, svg, vizError, redrawn>>
    /\ UNCHANGED <<playbackVars, audioVars>>

\* the second transition of the pulse ends: `d.fx = null; d.fy = null`
PulseEnd(i) ==
    /\ GraphShown
    /\ i \in pulsing
    /\ pinned' = pinned \ {i}
    /\ pulsing' = pulsing \ {i}
    /\ UNCHANGED <<nodePos, dragging, simLive, staleSim>>
    /\ UNCHANGED <<vizData, vizStep, vizMounted, svg, vizError, redrawn>>
    /\ UNCHANGED <<playbackVars, audioVars>>

\* drag start on node i: alphaTarget(0.3).restart(), `d.fx = d.x; d.fy = d.y`
DragStart(i) ==
    /\ GraphShown
    /\ dragging = 0
    /\ i \in 1..Len(nodePos)
    /\ dragging' = i
    /\ pinned' = pinned \cup {i}
    /\ simLive' = TRUE
    /\ UNCHANGED <<nodePos, pulsing, staleSim>>
    /\ UNCHANGED <<vizData, vizStep, vizMounted, svg, vizError, redrawn>>
    /\ UNCHANGED <<playbackVars, audioVars>>

\* drag end after movement: alphaTarget(0), `d.fx = null; d.fy = null`; the
\* click that follows is suppressed
DragEnd ==
    /\ GraphShown
    /\ dragging # 0
    /\ pinned' = pinned \ {dragging}
    /\ dragging' = 0
    /\ UNCHANGED <<nodePos, pulsing, simLive, staleSim>>
    /\ UNCHANGED <<vizData, vizStep, vizMounted, svg, vizError, redrawn>>
    /\ UNCHANGED <<playbackVars, audioVars>>

\* graphs in the sequential form, with the node ids n1..nk
GraphPayloads ==
    {[type |-> "graph", data |-> Data("array", [i \in 1..k |-> i], <<>>, <<>>, <<>>, 0, 0)] :
        k \in 1..MaxNodes}

GraphInit ==
    /\ PlaybackInit
    /\ vizData \in GraphPayloads
    /\ vizStep = 0
    /\ vizMounted = FALSE
    /\ svg = <<>>
    /\ vizError = "none"
    /\ redrawn = FALSE
    /\ PhysicsInit

GraphNext ==
    \/ MountVisualizer
    \/ \E s \in VizSteps : SetCurrentStep(s)
    \/ SetAnimationSpeed
    \/ UnmountVisualizer
    \/ SimTick
    \/ SimCool
    \/ StaleSimCool
    \/ \E i \in NodeIds : ClickNode(i)
    \/ \E i \in NodeIds : PulseEnd(i)
    \/ \E i \in NodeIds : DragStart(i)
    \/ DragEnd

GraphSpec == GraphInit /\ [][GraphNext]_vars

\* ======================================================================
\* AudioExplanation: the second user of the speech service
\* ======================================================================

\* the generated script; the step descriptions are the texts 1..MaxSteps
AudioText == MaxSteps + 1

\* startSpeech: the queue is cancelled only when this component has made
\* an utterance before; then the new utterance is queued
startSpeech(q, ref, text) == Append(IF ref THEN <<>> ELSE q, text)

\* generateScript resolved (or failed: the fallback text is not empty)
GenerateScript ==
    /\ Mounted
    /\ audioScript = 0
    /\ audioScript' = AudioText
    /\ UNCHANGED <<utteranceRef, audioIsPlaying, speechPaused>>
    /\ UNCHANGED <<playbackVars, vizVars>>

\* click on Play/Pause of the audio panel
AudioHandlePlay ==
    /\ Idle
    /\ audioScript # 0
    /\ IF audioIsPlaying
       THEN /\ speechPaused' = TRUE
            /\ audioIsPlaying' = FALSE
            /\ UNCHANGED <<speech, utteranceRef>>
       ELSE IF speech # <<>> /\ speechPaused
       THEN /\ speechPaused' = FALSE
            /\ audioIsPlaying' = TRUE
            /\ UNCHANGED <<speech, utteranceRef>>
       ELSE /\ speech' = startSpeech(speech, utteranceRef, audioScript)
            /\ utteranceRef' = TRUE
            /\ UNCHANGED <<audioIsPlaying, speechPaused>>
    /\ Did("audioplay")
    /\ UNCHANGED audioScript
    /\ UNCHANGED <<algorithmData, loading, currentStep, isPlaying, playbackSpeed,
                   intervalRef, timers, pendStep, pendPlaying, narrated, stepCalls>>
    /\ UNCHANGED vizVars

\* click on Stop of the audio panel
AudioHandleStop ==
    /\ Idle
    /\ speech' = <<>>
    /\ audioIsPlaying' = FALSE
    /\ Did("audiostop")
    /\ UNCHANGED <<audioScript, utteranceRef, speechPaused>>
    /\ UNCHANGED <<algorithmData, loading, currentStep, isPlaying, playbackSpeed,
                   intervalRef, timers, pendStep, pendPlaying, narrated, stepCalls>>
    /\ UNCHANGED vizVars

\* utterance.onstart: the script has reached the head of the queue
AudioStarted ==
    /\ ~audioIsPlaying
    /\ ~speechPaused
    /\ speech # <<>>
    /\ Head(speech) = AudioText
    /\ audioIsPlaying' = TRUE
    /\ UNCHANGED <<audioScript, utteranceRef, speechPaused>>
    /\ UNCHANGED <<playbackVars, vizVars>>

\* utterance.onend: the script has been spoken to its end
AudioEnded ==
    /\ ~speechPaused
    /\ speech # <<>>
    /\ Head(speech) = AudioText
    /\ speech' = Tail(speech)
    /\ audioIsPlaying' = FALSE
    /\ Did("audioend")
    /\ UNCHANGED <<audioScript, utteranceRef, speechPaused>>
    /\ UNCHANGED <<algorithmData, loading, currentStep, isPlaying, playbackSpeed,
                   intervalRef, timers, pendStep, pendPlaying, narrated, stepCalls>>
    /\ UNCHANGED vizVars

\* utterance.onend / onerror of a script that a cancel() removed
AudioCancelled ==
    /\ audioIsPlaying
    /\ IF speech = <<>> THEN TRUE ELSE Head(speech) # AudioText
    /\ audioIsPlaying' = FALSE
    /\ UNCHANGED <<audioScript, utteranceRef, speechPaused>>
    /\ UNCHANGED <<playbackVars, vizVars>>

\* a step narration has been spoken to its end (none ends while the
\* service is paused)
NarrationEnd ==
    /\ ~speechPaused
    /\ speech # <<>>
    /\ Head(speech) # AudioText
    /\ SpeechEnd

\* App after a search has loaded: controller and audio panel mounted
LoadedInit ==
    /\ algorithmData \in {<<s>> : s \in StepLists}
    /\ loading = FALSE
    /\ currentStep = 0
    /\ isPlaying = FALSE
    /\ playbackSpeed = DefaultSpeed
    /\ intervalRef = 0
    /\ timers = {}
    /\ speech = <<>>
    /\ pendStep = <<>>
    /\ pendPlaying = <<>>
    /\ lastOp = "load"
    /\ stepBefore = 0
    /\ playingBefore = FALSE
    /\ prevOp = "search"
    /\ stepBefore2 = 0
    /\ narrated = <<>>
    /\ stepCalls = 0
    /\ audioScript = 0
    /\ utteranceRef = FALSE
    /\ audioIsPlaying = FALSE
    /\ speechPaused = FALSE
    /\ vizData = NoPayload
    /\ vizStep = 0
    /\ vizMounted = FALSE
    /\ svg = <<>>
    /\ vizError = "none"
    /\ redrawn = FALSE
    /\ PhysicsInit

AudioNext ==
    \/ HandlePlay
    \/ HandlePause
    \/ HandleNext
    \/ HandlePrevious
    \/ HandleReset
    \/ \E index \in 0..(MaxSteps - 1) : SelectStep(index)
    \/ \E t \in timers : Tick(t)
    \/ Commit
    \/ NarrationEnd
    \/ GenerateScript
    \/ AudioHandlePlay
    \/ AudioHandleStop
    \/ AudioStarted
    \/ AudioEnded
    \/ AudioCancelled

AudioSpec == LoadedInit /\ [][AudioNext]_vars

\* ======================================================================
\* Playback left to itself
\* ======================================================================

\* the user chooses a step while nothing is playing
Position ==
    /\ ~isPlaying
    /\ \E index \in 0..(MaxSteps - 1) : SelectStep(index)

\* After play() only the interval, React and the speech service act.
LiveNext ==
    \/ Position
    \/ HandlePlay
    \/ \E t \in timers : Tick(t)
    \/ Commit
    \/ SpeechEnd

\* A live interval keeps firing until it is cleared, and React renders
\* every update that was queued.
LiveSpec ==
    /\ LoadedInit
    /\ [][LiveNext]_vars
    /\ WF_vars(\E t \in timers : Tick(t))
    /\ WF_vars(Commit)

\* ======================================================================
\* Properties
\* ======================================================================

last == Len(steps) - 1

\* ----------------------------------------------------------------- C1
\* C1: whenever a step list is loaded (of any length, the empty one
\* included), 0 <= currentStep < len(steps).
C1_StepInRange ==
    Mounted => (0 <= currentStep /\ currentStep < Len(steps))

\* what the code does keep: the index is in range for every non-empty list,
\* and is 0 for the empty one
Lemma_StepInRangeNonEmpty ==
    Mounted => /\ 0 <= currentStep
               /\ currentStep <= (IF Len(steps) = 0 THEN 0 ELSE last)

\* ----------------------------------------------------------------- C2
\* C2: at most one playback interval is live at any time; an interval is
\* never created while an earlier one is still uncancelled.
C2_SingleTimer ==
    /\ Cardinality(timers) <= 1
    /\ \A t \in timers : t.id = intervalRef

\* an interval created by the render that followed a tick, after the
\* interval of the previous step was cleared
C2_Witness ==
    /\ lastOp = "commit"
    /\ currentStep = stepBefore + 1
    /\ Cardinality(timers) = 1
    /\ isPlaying

\* ----------------------------------------------------------------- C3
\* C3: in every reachable state, isPlaying implies that a live interval
\* exists (stated for the lists that have a step, so that the empty list of
\* C1 plays no part).
C3_PlayingHasTimer ==
    (isPlaying /\ Len(steps) >= 1) => timers # {}

\* what the code does keep: playing without an interval only while the
\* effect's setIsPlaying(false) is queued
Lemma_PlayingHasTimerOrStops ==
    isPlaying => (timers # {} \/ pendPlaying = <<FALSE>>)

\* ----------------------------------------------------------------- C4
\* C4: every transition out of playing (pause, reset, the automatic stop at
\* the last step) ends with no live interval and with no narration in
\* flight; the narration of step 0 that reset itself starts is not counted
\* (stated for the lists of at least two steps, where playback runs).
C4_LeavePlayingSilent ==
    [][(isPlaying /\ ~isPlaying' /\ Len(steps) >= 2) =>
          /\ timers' = {}
          /\ \/ speech' = <<>>
             \/ lastOp' = "reset" /\ speech' = <<Description(steps, 0)>>
      ]_vars

\* what the code does keep: no interval is left; pause and unmount leave no
\* narration, reset leaves that of step 0 alone, and the automatic stop
\* leaves the speech queue as it is
Lemma_LeavePlaying ==
    [][(isPlaying /\ ~isPlaying') =>
          /\ timers' = {}
          /\ lastOp' \in {"pause", "reset", "commit", "search"}
          /\ (lastOp' \in {"pause", "search"} => speech' = <<>>)
          /\ (lastOp' = "reset" => speech' = <<Description(steps, 0)>>)
          /\ (lastOp' = "commit" => speech' = speech /\ currentStep' >= last)
      ]_vars

\* ----------------------------------------------------------------- C5
\* what play() is to establish: the wrap from the last index, status
\* playing, and exactly one interval at playbackSpeed whose callback is
\* handleNext of the new render
PlayPost ==
    /\ isPlaying'
    /\ currentStep' = (IF currentStep >= last THEN 0 ELSE currentStep)
    /\ \E t \in timers' :
          /\ timers' = {t}
          /\ t.ms = playbackSpeed
          /\ t.k = currentStep'
          /\ t.id = intervalRef'

\* C5: play() from any non-playing state, for any step list and any
\* currentStep, wraps from the last index to 0 and leaves the controller
\* playing with one interval at playbackSpeed.
C5_PlayAnyList ==
    [][HandlePlay => PlayPost]_vars

\* what the code does keep: the same for every list of at least two steps
Lemma_PlayTwoSteps ==
    [][(HandlePlay /\ Len(steps) >= 2) => PlayPost]_vars

\* ----------------------------------------------------------------- C6
\* C6: each next() below the last index increases currentStep by exactly
\* one (by hand or by a tick and its render); at the last index next()
\* changes nothing; once the last index is reached while playing the stop
\* is queued with no interval left, and the render that applies it leaves
\* currentStep where it is.
C6_NextMonotone ==
    [][/\ (HandleNext /\ currentStep < last) => currentStep' = currentStep + 1
       /\ (HandleNext /\ currentStep >= last) => currentStep' = currentStep
       /\ \A t \in timers : Tick(t) =>
             /\ pendStep' = <<currentStep + 1>>
             /\ currentStep + 1 <= last
             /\ currentStep' = currentStep
       /\ (Commit /\ pendStep # <<>>) => currentStep' = currentStep + 1
       /\ (isPlaying' /\ currentStep' >= Len(steps') - 1) =>
             (pendPlaying' = <<FALSE>> /\ timers' = {} /\ pendStep' = <<>>)
       /\ (Commit /\ pendPlaying = <<FALSE>>) =>
             (~isPlaying' /\ currentStep' = currentStep)
       /\ Mounted' => currentStep' <= (IF Len(steps') = 0 THEN 0 ELSE Len(steps') - 1)
      ]_vars

\* playback ran from step 0 to the last step of the longest list and stopped
C6_Witness ==
    /\ lastOp = "commit"
    /\ prevOp = "commit"
    /\ playingBefore
    /\ ~isPlaying
    /\ Len(steps) = MaxSteps
    /\ currentStep = last
    /\ stepBefore2 = last - 1

\* ----------------------------------------------------------------- C7
\* C7: previous() at k > 0 yields k - 1 and a next() right after it yields
\* k again; previous() at 0 and next() at the last index change nothing.
C7_RoundTrip ==
    [][/\ (HandlePrevious /\ currentStep > 0) => currentStep' = currentStep - 1
       /\ (HandlePrevious /\ currentStep = 0) => currentStep' = 0
       /\ (HandleNext /\ currentStep >= last) => currentStep' = currentStep
       /\ (HandleNext /\ lastOp = "previous" /\ stepBefore > 0) =>
             (currentStep = stepBefore - 1 /\ currentStep' = stepBefore)
      ]_vars

\* previous() at k > 0 followed by next() is back at k
C7_Witness ==
    /\ lastOp = "next"
    /\ prevOp = "previous"
    /\ stepBefore2 > 0
    /\ stepBefore = stepBefore2 - 1
    /\ currentStep = stepBefore2

\* ----------------------------------------------------------------- C8
\* C8: reset() from any state leaves the controller not playing, with no
\* live interval and nothing queued, at currentStep 0, and with the
\* narration of step 0 (when there is a step 0) as the only one in flight.
C8_Reset ==
    [][HandleReset =>
          /\ ~isPlaying'
          /\ timers' = {}
          /\ currentStep' = 0
          /\ pendStep' = <<>>
          /\ pendPlaying' = <<>>
          /\ speech' = (IF Len(steps) >= 1 THEN <<Description(steps, 0)>> ELSE <<>>)
      ]_vars

\* reset() while playing at a later step whose narration was in flight
C8_Witness ==
    /\ lastOp = "reset"
    /\ playingBefore
    /\ stepBefore > 0
    /\ ~isPlaying
    /\ currentStep = 0
    /\ timers = {}
    /\ speech = <<Description(steps, 0)>>

\* ----------------------------------------------------------------- C9
\* C9: pause() cancels the interval, leaves the controller not playing with
\* no narration in flight, and keeps currentStep and playbackSpeed; a play()
\* right after it resumes from the same currentStep when that is not the
\* last index.
C9_PauseResume ==
    [][/\ HandlePause =>
             /\ timers' = {}
             /\ ~isPlaying'
             /\ speech' = <<>>
             /\ currentStep' = currentStep
             /\ playbackSpeed' = playbackSpeed
       /\ (HandlePlay /\ lastOp = "pause" /\ currentStep < last) =>
             /\ currentStep' = currentStep
             /\ currentStep' = stepBefore
             /\ playbackSpeed' = playbackSpeed
             /\ isPlaying'
             /\ \E t \in timers' : timers' = {t} /\ t.k = currentStep /\ t.ms = playbackSpeed
      ]_vars

\* playback was paused at a step past the first and resumed from it
C9_Witness ==
    /\ lastOp = "play"
    /\ prevOp = "pause"
    /\ stepBefore2 > 0
    /\ currentStep = stepBefore2
    /\ isPlaying
    /\ timers # {}

\* ---------------------------------------------------------------- C10
\* C10: every change of currentStep of a mounted controller, whatever causes
\* it, comes with narration of the new step's description.
C10_StepChangeNarrates ==
    [][(Mounted /\ Mounted' /\ currentStep' # currentStep) =>
          narrated' = <<Description(steps, currentStep')>>]_vars

\* what the code does keep: next, previous, reset and ticks narrate the step
\* they move to
Lemma_HandlersNarrate ==
    [][(Mounted /\ Mounted' /\ currentStep' # currentStep
          /\ lastOp' \notin {"play", "select"}) =>
          narrated' = <<Description(steps, currentStep')>>]_vars

\* ---------------------------------------------------------------- C11
\* C11: once the controller is at a different step no narration of another
\* step is in flight any more: after every change of currentStep of a
\* mounted controller the speech queue holds nothing but the description of
\* the step the controller is now at.
C11_NarrationExclusive ==
    [][(Mounted /\ Mounted' /\ currentStep' # currentStep) =>
          \A i \in 1..Len(speech') :
              speech'[i] = Description(steps, currentStep')]_vars

\* what the code does keep: speak() cancels before it queues, so at most one
\* utterance is in flight, and the handlers that narrate leave only the
\* description of the step they move to
Lemma_SpeakCancelsFirst ==
    [][/\ Len(speech') <= 1
       /\ (Mounted /\ Mounted' /\ currentStep' # currentStep
             /\ lastOp' \notin {"play", "select"}) =>
             \A i \in 1..Len(speech') :
                 speech'[i] = Description(steps, currentStep')
      ]_vars

\* ---------------------------------------------------------------- C12
\* renders of a mounted controller, by the name of the operation rendered
RenderOps ==
    {"play", "pause", "next", "previous", "reset", "select", "speed", "commit"}

\* C12: onStepChange is called exactly once per committed change of
\* currentStep: a render changes currentStep exactly when onStepChange was
\* called since the render before it, and then it was called once.
C12_OneCallPerChange ==
    [][(Mounted /\ Mounted' /\ lastOp' \in RenderOps) =>
          /\ (currentStep' # currentStep) => stepCalls' = 1
          /\ (stepCalls' >= 1) => currentStep' # currentStep
      ]_vars

\* what the code does keep: no change of currentStep without a call
Lemma_ChangeHasCall ==
    [][(Mounted /\ Mounted' /\ currentStep' # currentStep) => stepCalls' >= 1]_vars

\* ---------------------------------------------------------------- C13
\* C13: once the controller is unmounted no interval of it is live (no tick
\* can fire) and no narration is in flight.
C13_UnmountClean ==
    (~Mounted) => (timers = {} /\ speech = <<>>)

\* the controller was unmounted right after play() started an interval at a
\* step past the first
C13_Witness ==
    /\ lastOp = "search"
    /\ prevOp = "play"
    /\ playingBefore
    /\ stepBefore = 1
    /\ ~Mounted
    /\ timers = {}
    /\ speech = <<>>

\* ======================================================================
\* Properties of the visualizer (checked under RenderSpec)
\* ======================================================================

\* the component was mounted, or mounting it threw
Attempted == vizMounted \/ vizError # "none"

\* the elements of a class, in document order
OfClass(cls) == SelectSeq(svg, LAMBDA e : e.cls = cls)

\* the marks by which a scene is read as a linked list or as an array
DrawnAsLinkedList ==
    /\ Len(OfClass("array-title")) = 1
    /\ Len(OfClass("node-box")) = Len(vizData.data.nodes)

DrawnAsArray ==
    /\ Len(OfClass("axis")) = 2
    /\ Len(OfClass("bar")) = Len(vizData.data.items)

\* ---------------------------------------------------------------- C14
\* C14: for every payload (known, unrecognized or absent kind tag; data of
\* any shape, null included) the visualizer renders without an exception.
C14_RenderNeverThrows ==
    vizError = "none"

\* what the code does keep: a payload whose tag is known and whose data has
\* the shape the tag's renderer reads, or whose tag is an unknown string
\* over data that is not null, is rendered without an exception
Lemma_WellFormedRenders ==
    (\/ vizData.type \in {"array", "tree"} /\ vizData.data.shape = "array"
     \/ vizData.type = "graph" /\ vizData.data.shape \in {"array", "map"}
     \/ vizData.type = "linkedlist" /\ vizData.data.shape # "null"
     \/ vizData.type = "other" /\ vizData.data.shape # "null")
        => vizError = "none"

\* ---------------------------------------------------------------- C15
\* C15: with the kind tag unset or unrecognized, data that is a non-array
\* object with a nodes key is drawn as a linked list, data that is an
\* ordered sequence is drawn as an array, and any other data leaves the
\* scene empty.
C15_AutoDetect ==
    (Attempted /\ vizData.type \in {"other", "absent"}) =>
        /\ vizData.data.shape = "list" => DrawnAsLinkedList
        /\ vizData.data.shape = "array" => DrawnAsArray
        /\ vizData.data.shape \notin {"list", "array"} => svg = <<>>

\* what the code does keep: the fallback classifies as claimed when the tag
\* is a string the dispatch does not know
Lemma_AutoDetectUnrecognized ==
    (Attempted /\ vizData.type = "other") =>
        /\ vizData.data.shape = "list" => DrawnAsLinkedList
        /\ vizData.data.shape = "array" => DrawnAsArray
        /\ vizData.data.shape \notin {"list", "array"} => svg = <<>>

\* ---------------------------------------------------------------- C16
\* C16: an array payload of length n rendered at a step s with 0 <= s < n
\* has exactly n bars, bar i is current iff i = s, processed iff i < s and
\* pending otherwise, and exactly one bar is current.
C16_BarColoring ==
    (/\ vizMounted
     /\ vizError = "none"
     /\ vizData.type \in {"array", "other"}
     /\ vizData.data.shape = "array"
     /\ vizStep < Len(vizData.data.items)) =>
        LET bars == OfClass("bar")
        IN  /\ Len(bars) = Len(vizData.data.items)
            /\ \A k \in 1..Len(bars) :
                  /\ bars[k].i = k - 1
                  /\ bars[k].fill = "current-color" <=> (k - 1 = vizStep)
                  /\ bars[k].fill = "checked-color" <=> (k - 1 < vizStep)
                  /\ bars[k].fill = "unchecked-color" <=> (k - 1 > vizStep)
            /\ Cardinality({k \in 1..Len(bars) : bars[k].fill = "current-color"}) = 1

\* the longest array at step 1: a processed, the current and a pending bar
C16_Witness ==
    /\ vizMounted
    /\ vizError = "none"
    /\ vizData.type = "array"
    /\ Len(vizData.data.items) = MaxLen
    /\ vizStep = 1
    /\ Len(OfClass("bar")) = MaxLen
    /\ OfClass("bar")[1].fill = "checked-color"
    /\ OfClass("bar")[2].fill = "current-color"
    /\ OfClass("bar")[MaxLen].fill = "unchecked-color"

\* ---------------------------------------------------------------- C17
\* C17: in a graph drawn from an adjacency mapping both ends of every edge
\* are keys of the mapping, and only the keys are drawn as nodes: a
\* neighbor that is not a key appears neither as an end of an edge nor as
\* a node.
C17_EdgesBetweenDeclared ==
    (/\ vizMounted
     /\ vizError = "none"
     /\ vizData.type = "graph"
     /\ vizData.data.shape = "map") =>
        LET lines == OfClass("line")
            keys == DOMAIN vizData.data.adj
        IN  /\ \A k \in 1..Len(lines) :
                  lines[k].from \in keys /\ lines[k].to \in keys
            /\ Len(OfClass("circle")) = Cardinality(keys)

\* a node with a declared and an undeclared neighbor: one edge is drawn
C17_Witness ==
    /\ vizMounted
    /\ vizError = "none"
    /\ vizData.type = "graph"
    /\ vizData.data.shape = "map"
    /\ DOMAIN vizData.data.adj = {1}
    /\ vizData.data.adj[1] = <<1, MaxNodes>>
    /\ Len(OfClass("line")) = 1
    /\ Len(OfClass("circle")) = 1

\* ---------------------------------------------------------------- C18
\* C18: drawing again with the same payload and step leaves the scene as
\* the first drawing left it (same elements, same colors), whatever the
\* kind: nothing of the earlier pass is kept beside the new one.
C18_RedrawSame ==
    [][SetAnimationSpeed => (svg' = svg /\ vizError' = vizError)]_vars

\* a linked list with nodes was drawn a second time at a later step
C18_Witness ==
    /\ redrawn
    /\ vizError = "none"
    /\ vizData.type = "linkedlist"
    /\ vizData.data.shape = "list"
    /\ Len(vizData.data.nodes) = MaxNodes
    /\ vizStep = 1
    /\ Len(OfClass("node-box")) = MaxNodes
    /\ Len(OfClass("g")) = 1

\* ---------------------------------------------------------------- C19
\* the lists of the example: head n1, tail n3, n1 -> n2, n2 -> n3, without
\* and with n3 -> n1
ChainExample ==
    Data("list", <<>>, <<>>, <<1, 2, 3>>,
         <<[from |-> 1, to |-> 2], [from |-> 2, to |-> 3]>>, 1, 3)

RingExample ==
    Data("list", <<>>, <<>>, <<1, 2, 3>>,
         <<[from |-> 1, to |-> 2], [from |-> 2, to |-> 3], [from |-> 3, to |-> 1]>>, 1, 3)

HasIndicator(s) == \E k \in 1..Len(s) : s[k].cls = "circular-indicator"

\* C19: the circular indicator of a linked list is drawn exactly when some
\* connection goes from the tail to the head; the chain n1 -> n2 -> n3 has
\* none, and with n3 -> n1 added it has one.
C19_CircularIffTailToHead ==
    /\ (/\ vizMounted
        /\ vizError = "none"
        /\ vizData.type \in {"linkedlist", "other"}
        /\ vizData.data.shape = "list") =>
           /\ HasIndicator(svg) <=>
                 ([from |-> vizData.data.tail, to |-> vizData.data.head]
                     \in {vizData.data.connections[k] :
                             k \in 1..Len(vizData.data.connections)})
           /\ Len(OfClass("circular-indicator")) <= 1
    /\ ~HasIndicator(renderLinkedListVisualization(<<>>, ChainExample, 0).svg)
    /\ HasIndicator(renderLinkedListVisualization(<<>>, RingExample, 0).svg)

\* the list n1 -> n2 -> n1 with head n1 and the last node as tail
C19_Witness ==
    /\ vizMounted
    /\ vizError = "none"
    /\ vizData.type = "linkedlist"
    /\ vizData.data.shape = "list"
    /\ Len(vizData.data.nodes) = MaxNodes
    /\ vizData.data.head = 1
    /\ vizData.data.tail = MaxNodes
    /\ vizData.data.connections =
          <<[from |-> 1, to |-> MaxNodes], [from |-> MaxNodes, to |-> 1]>>
    /\ HasIndicator(svg)

\* ---------------------------------------------------------------- C20
\* C20: a known kind tag that contradicts the shape of the data does not
\* decide the structure: an object with a nodes key under the tag array,
\* graph or tree is drawn as a linked list, and a sequence under the tag
\* linkedlist is drawn as an array.
C20_TagAdvisory ==
    Attempted =>
        /\ (vizData.type \in {"array", "graph", "tree"}
               /\ vizData.data.shape = "list") => DrawnAsLinkedList
        /\ (vizData.type = "linkedlist"
               /\ vizData.data.shape = "array") => DrawnAsArray

\* what the code does: a known tag alone picks the renderer, and a renderer
\* given data of another shape draws none of that data
Lemma_TagDecides ==
    (Attempted /\ vizData.type \in Tags) =>
        /\ vizData.type # "linkedlist" => Len(OfClass("node-box")) = 0
        /\ vizData.type # "array" => Len(OfClass("bar")) = 0

\* ---------------------------------------------------------------- C23
\* C23: in a drawn graph every node has the start color at step 0; at a
\* step s > 0 a node the payload marks visited is green, a node it marks
\* current is amber, and a node it marks neither is gray.
C23_GraphColoring ==
    (/\ vizMounted
     /\ vizError = "none"
     /\ vizData.type = "graph"
     /\ vizData.data.shape = "array") =>
        LET circles == OfClass("circle")
        IN  \A k \in 1..Len(circles) :
               /\ vizStep = 0 => circles[k].fill = "#3b82f6"
               /\ (vizStep > 0 /\ k \in vizData.data.visited
                     /\ k \notin vizData.data.current) => circles[k].fill = "#10b981"
               /\ (vizStep > 0 /\ k \in vizData.data.current
                     /\ k \notin vizData.data.visited) => circles[k].fill = "#f59e0b"
               /\ (vizStep > 0 /\ k \notin vizData.data.visited
                     /\ k \notin vizData.data.current) => circles[k].fill = "#6b7280"

\* what the code does: the flags never reach the node objects, so past step
\* 0 every node is gray
Lemma_GraphFillIgnoresFlags ==
    (vizMounted /\ vizError = "none" /\ vizData.type = "graph") =>
        \A k \in 1..Len(OfClass("circle")) :
            OfClass("circle")[k].fill = (IF vizStep = 0 THEN "#3b82f6" ELSE "#6b7280")

\* ---------------------------------------------------------------- C24
\* C24: in a drawn linked list of n nodes at step s, cell i of the array
\* strip has the step color of list node i: current iff i = s, processed
\* iff i < s, pending iff i > s.
C24_StripMatchesNodes ==
    (/\ vizMounted
     /\ vizError = "none"
     /\ vizData.type \in {"linkedlist", "other"}
     /\ vizData.data.shape = "list") =>
        LET boxes == OfClass("node-box")
            cells == OfClass("array-box")
        IN  /\ Len(cells) = Len(vizData.data.nodes)
            /\ Len(boxes) = Len(cells)
            /\ \A k \in 1..Len(cells) :
                  /\ cells[k].fill = boxes[k].fill
                  /\ cells[k].fill = "#f59e0b" <=> (k - 1 = vizStep)
                  /\ cells[k].fill = "#10b981" <=> (k - 1 < vizStep)
                  /\ cells[k].fill = "#3b82f6" <=> (k - 1 > vizStep)

\* what the code does: one cell per node, each colored as index 0 is
Lemma_StripColoredAsFirst ==
    (/\ vizMounted
     /\ vizError = "none"
     /\ vizData.type \in {"linkedlist", "other"}
     /\ vizData.data.shape = "list") =>
        /\ Len(OfClass("array-box")) = Len(vizData.data.nodes)
        /\ \A k \in 1..Len(OfClass("array-box")) :
              OfClass("array-box")[k].fill = NodeBoxFill(0, vizStep)

\* ---------------------------------------------------------------- C25
\* the positions of the connections whose two ends are nodes of the list
Resolved(d) ==
    {k \in 1..Len(d.connections) :
        /\ \E j \in 1..Len(d.nodes) : d.nodes[j] = d.connections[k].from
        /\ \E j \in 1..Len(d.nodes) : d.nodes[j] = d.connections[k].to}

\* C25 as stated: a drawn linked list has as many arrows as its payload has
\* connections.
C25_ArrowPerConnection ==
    (/\ vizMounted
     /\ vizError = "none"
     /\ vizData.type \in {"linkedlist", "other"}
     /\ vizData.data.shape = "list") =>
        Len(OfClass("linkedlist-arrow")) = Len(vizData.data.connections)

\* C25 amended: a drawn linked list has one arrow for each connection whose
\* two ends are nodes of the list and none for any other connection,
\* whatever the step (and so the colors of the nodes).
C25_ArrowPerResolvedConnection ==
    (/\ vizMounted
     /\ vizError = "none"
     /\ vizData.type \in {"linkedlist", "other"}
     /\ vizData.data.shape = "list") =>
        LET arrows == OfClass("linkedlist-arrow")
            conns == vizData.data.connections
        IN  /\ Len(arrows) = Cardinality(Resolved(vizData.data))
            /\ \A k \in Resolved(vizData.data) :
                  \E a \in 1..Len(arrows) :
                      arrows[a].from = conns[k].from /\ arrows[a].to = conns[k].to
            /\ \A a \in 1..Len(arrows) :
                  \E k \in Resolved(vizData.data) :
                      arrows[a].from = conns[k].from /\ arrows[a].to = conns[k].to

\* a list of one node with a connection to itself and a dangling one, drawn
\* at a later step: one arrow
C25_Witness ==
    /\ vizMounted
    /\ vizError = "none"
    /\ vizData.type = "linkedlist"
    /\ vizData.data.shape = "list"
    /\ Len(vizData.data.nodes) = 1
    /\ vizData.data.connections = <<[from |-> 1, to |-> 1], [from |-> 1, to |-> MaxNodes]>>
    /\ vizStep = 1
    /\ Len(OfClass("linkedlist-arrow")) = 1

\* ----------------------------------------------------------------------
\* Graph physics
\* ----------------------------------------------------------------------

\* C21: re-rendering the same graph payload at another step keeps each
\* node's physics state (position and pin fields) of the previous render.
\* Violated: every effect run builds new node objects and puts them on the
\* circular seed.
C21_PhysicsPersists ==
    [][(GraphShown /\ \E s \in VizSteps : SetCurrentStep(s))
          => nodePos' = nodePos /\ pinned' = pinned]_vars

\* what the code does instead: after every effect run each node is on the
\* seed and none is pinned
Lemma_RerenderReseeds ==
    [][(MountVisualizer \/ SetAnimationSpeed \/ \E s \in VizSteps : SetCurrentStep(s))
          => /\ pinned' = {}
             /\ \A k \in 1..Len(nodePos') : nodePos'[k] = "seed"]_vars

\* C22: at most one force simulation is live, and none of an earlier render
\* is live after a re-render or after the visualizer is torn down.
\* Violated: nothing stops a simulation.
C22_OneSimulation ==
    /\ ~(simLive /\ staleSim)
    /\ ~vizMounted => ~staleSim

\* C28: a click on a graph node without dragging never sets the node's pin
\* fields.  Violated: the click handler pins the node for the duration of
\* the pulse.
C28_ClickKeepsPins ==
    [][\A i \in NodeIds : ClickNode(i) => pinned' = pinned]_vars

\* a node is pinned only while its pulse runs or while it is dragged
Lemma_ClickPinHasPulse ==
    \A i \in pinned : i \in pulsing \/ i = dragging

\* ----------------------------------------------------------------------
\* The speech service with both of its users
\* ----------------------------------------------------------------------

\* C26: across speak() and startSpeech every start of an utterance first
\* cancels what is queued, so the speech service never holds more than one
\* utterance.  Violated: the first startSpeech of an audio panel cancels
\* nothing.
C26_OneUtterance == Len(speech) <= 1

\* what holds: the queue never holds more than the one narration that was
\* there at the panel's first Play, followed by the script
Lemma_AtMostTwoUtterances ==
    /\ Len(speech) <= 2
    /\ Len(speech) = 2 => speech[1] # AudioText /\ speech[2] = AudioText

\* ----------------------------------------------------------------------
\* Ticks that fire before the render
\* ----------------------------------------------------------------------

\* C29: every tick of an interval created at step k requests step k + 1,
\* k being the step still shown, and k + 1 is at most the last index; the
\* render that follows several ticks advances currentStep by exactly one.
C29_TicksAdvanceByOne ==
    [][/\ \A t \in timers : Tick(t) =>
             /\ t.k = currentStep
             /\ pendStep' = <<t.k + 1>>
             /\ t.k + 1 <= last
       /\ (Commit /\ QueuedCalls >= 2) =>
             /\ currentStep' = currentStep + 1
             /\ currentStep' <= last
      ]_vars

\* a render that followed two ticks of one interval advanced by one step
C29_Witness ==
    /\ lastOp = "commit"
    /\ prevOp = "tick"
    /\ stepCalls = 2
    /\ isPlaying
    /\ currentStep = stepBefore + 1

\* ----------------------------------------------------------------------
\* A new search
\* ----------------------------------------------------------------------

\* C30: a new search sets currentStep to 0 and clears the algorithm data,
\* which unmounts the controller; the controller that is mounted for the
\* data loaded next is not playing, at step 0, with no interval live and no
\* narration of the previous algorithm in the queue.
C30_FreshController ==
    [][/\ HandleSearch => (currentStep' = 0 /\ ~Mounted')
       /\ (\E s \in StepLists : LoadSuccess(s)) =>
             /\ Mounted'
             /\ ~isPlaying'
             /\ currentStep' = 0
             /\ timers' = {}
             /\ speech' = <<>>
             /\ pendStep' = <<>>
             /\ pendPlaying' = <<>>
      ]_vars

\* data loaded by a search that was started at a later step of the
\* previous algorithm
C30_Witness ==
    /\ lastOp = "load"
    /\ prevOp = "search"
    /\ stepBefore2 > 0
    /\ Mounted
    /\ currentStep = 0
    /\ ~isPlaying

\* ----------------------------------------------------------------------
\* Playback runs to the end
\* ----------------------------------------------------------------------

\* C27: with fair ticks and no user input while playing, playback on a list
\* of at least two steps eventually is at the last index, not playing and
\* without a live interval; no tick, and no render of a tick, decreases
\* currentStep.
C27_PlaybackFinishes ==
    /\ (isPlaying /\ Len(steps) >= 2)
          ~> (~isPlaying /\ currentStep = last /\ timers = {})
    /\ [][((\E t \in timers : Tick(t)) \/ Commit) => currentStep' >= currentStep]_vars

\* playback of a list of at least two steps has stopped by itself at the
\* last index
C27_Witness ==
    /\ lastOp = "commit"
    /\ playingBefore
    /\ ~isPlaying
    /\ Len(steps) >= 2
    /\ currentStep = last
    /\ timers = {}

====
